---- MODULE Spec2Model ----
(***************************************************************************)
(* StellarVault (src/main.rs): the deposit path of a risk-tiered vault.    *)
(*                                                                         *)
(* State: the three vaults with their strategies, the user positions map   *)
(* and the insurance pool (struct StellarVault), plus the position of the  *)
(* one deposit() future that can exist at a time (deposit takes &mut self, *)
(* so the borrow checker admits a single call in flight).  deposit() has   *)
(* two suspension points, the await of get_balance and the await of        *)
(* send_payment; the model has one action per segment between them.        *)
(*                                                                         *)
(* Amounts are stroops (u64 in the source).  The model checker's integers  *)
(* are 32 bits wide, so the bounds below keep every quantity under 2^31;   *)
(* in that range no u64 addition wraps and every "as u64" narrowing is     *)
(* the identity.  The u128 products of the source do exceed 2^31, so       *)
(* WideMulDiv evaluates floor(a*b/c) without forming the product.          *)
(***************************************************************************)
EXTENDS Integers, Sequences, FiniteSets, TLC

\* ---------------------------------------------------------------- bounds
MaxDeposits == 3
MaxGross == 1000025000

\* ------------------------------------------------------------- constants
UNIT == 10000000
BPS_DENOM == 10000
PCT_DENOM == 100
ONE_XLM == 10000000

RiskLevel == {"Low", "Medium", "High"}
Users == {"u1", "u2"}
\* gross amounts offered to deposit(): 3 (fee cut 0 in every tier, and the
\* 60/40 split leaves a remainder), 8243 (fee cut 41, 82, 164, and an amount
\* a for which the f64 sum a/10^7 + 1.0 rounds above the f64 nearest to
\* 1 + a/10^7), 1000000000 (100 XLM)
Amounts == {3, 8243, 1000000000}
\* what Horizon answers to the balance query: an error, an empty list, an
\* entry without a "balance" field, or a balance (here in stroops; Horizon
\* sends it as decimal text with seven places, "1.0008243").  10008243 is
\* more than 1 XLM above 3, exactly 1 XLM above 8243 and too little
\* for 1000000000
BalanceReplies ==
    { [kind |-> "err", bal |-> 0],
      [kind |-> "empty", bal |-> 0],
      [kind |-> "nofield", bal |-> 0],
      [kind |-> "bal", bal |-> 10008243],
      [kind |-> "bal", bal |-> 2000000000] }

None == [ok |-> FALSE, val |-> 0, err |-> "none"]

VARIABLES
    vaults,          \* StellarVault.vaults
    user_positions,  \* StellarVault.user_positions
    insurance_pool,  \* StellarVault.insurance_pool
    pc,              \* where the deposit() future stands
    call,            \* arguments of the call in flight (or of the last call)
    result,          \* what the last deposit() returned
    pre,             \* history: ledger when the call was made
    balance_seen,    \* history: outcome of this call's balance query
    transfer,        \* history: this call's transfer_xlm: none/submitted/confirmed/failed
    gross_total,     \* history: sum of the gross amounts of the Ok deposits
    returned,        \* history: per tier, sum of the values returned in Ok
    ndeposits        \* history: number of Ok deposits

vars == << vaults, user_positions, insurance_pool, pc, call, result, pre,
           balance_seen, transfer, gross_total, returned, ndeposits >>

\* ------------------------------------------------------- widened arithmetic
\* A product x is carried as its quotient and remainder by the divisor c,
\* [q |-> x \div c, r |-> x % c], so that no intermediate exceeds
\* max(c, (a*b) \div c): QRDouble is 2x, QRAdd is x + y, QRSmall is k*x for a
\* hexadecimal digit k, QRStep is 16s + k*x.  MulDivDigits is b*x by Horner's
\* rule over the six hexadecimal digits of b (b < 2^24: the multipliers of
\* the source are 10^7, a u16 fee and a u8 percentage).
QRZero == [q |-> 0, r |-> 0]

QRDouble(x, c) ==
    IF x.r >= c - x.r
    THEN [q |-> 2 * x.q + 1, r |-> x.r - (c - x.r)]
    ELSE [q |-> 2 * x.q, r |-> 2 * x.r]

QRAdd(x, y, c) ==
    IF x.r >= c - y.r
    THEN [q |-> x.q + y.q + 1, r |-> x.r - (c - y.r)]
    ELSE [q |-> x.q + y.q, r |-> x.r + y.r]

QRBit(x, bit) == IF bit % 2 = 1 THEN x ELSE QRZero

QRSmall(x, k, c) ==
    QRAdd(QRBit(x, k),
          QRDouble(QRAdd(QRBit(x, k \div 2),
                         QRDouble(QRAdd(QRBit(x, k \div 4),
                                        QRDouble(QRBit(x, k \div 8), c), c), c), c), c), c)

\* s is evaluated first (the guard), then 16s + k*x
QRStep(s, x, k, c) ==
    IF s.q >= 0
    THEN QRAdd(QRDouble(QRDouble(QRDouble(QRDouble(s, c), c), c), c),
               QRSmall(x, k % 16, c), c)
    ELSE QRZero

MulDivDigits(x, b, c) ==
    QRStep(QRStep(QRStep(QRStep(QRStep(QRSmall(x, (b \div 1048576) % 16, c),
                                       x, b \div 65536, c),
                                x, b \div 4096, c),
                         x, b \div 256, c),
                  x, b \div 16, c),
           x, b, c)

\* quotient and remainder of a*b by c
MulDivQR(a, b, c) == MulDivDigits([q |-> a \div c, r |-> a % c], b, c)

\* (a as u128 * b as u128 / c as u128) as u64.  c = 0 is a division by zero
\* in the source (a panic); no call within the bounds has c = 0.
WideMulDiv(a, b, c) == IF a >= 0 /\ c > 0 THEN MulDivQR(a, b, c).q ELSE 0

\* ------------------------------------------------------------------ Vault
get_share_price_round_up(v) ==
    IF v.total_shares = 0
    THEN UNIT
    ELSE IF MulDivQR(v.total_value, UNIT, v.total_shares).r = 0
         THEN MulDivQR(v.total_value, UNIT, v.total_shares).q
         ELSE MulDivQR(v.total_value, UNIT, v.total_shares).q + 1
get_share_price(v) ==
    IF v.total_shares = 0
    THEN UNIT
    ELSE WideMulDiv(v.total_value, UNIT, v.total_shares)

\* ---------------------------------------------------------- StellarClient
\* get_balance: Err on a failed query, else the first entry's balance, 0
\* when the list is empty or the entry has no (parsable) balance
get_balance(reply) ==
    IF reply.kind = "err" THEN [ok |-> FALSE, val |-> 0]
    ELSE IF reply.kind = "bal" THEN [ok |-> TRUE, val |-> reply.bal]
    ELSE [ok |-> TRUE, val |-> 0]

\* ---- the f64 comparison balance < amount_xlm + 1.0 (lines 217 and 231)
\* balance is the f64 nearest to b/10^7 (str::parse is correctly rounded, b
\* the balance in stroops), amount_xlm the f64 nearest to a/10^7 (one IEEE
\* division of two exactly represented values), and amount_xlm + 1.0 is
\* rounded once more.  One stroop is 10^-7 XLM and an f64 below 2^8 is
\* spaced at most 2^-45 apart, so the roundings decide only when
\* b = a + 10^7.  Then balance = RN(1 + a/10^7) is rounded once, in the
\* binade E of 1 + a/10^7, while the right-hand side is rounded twice, first
\* in the binade e of a/10^7 and then in E.  With F = a * 2^(52-E) / 10^7,
\* I its integer part and f its fraction, the single rounding gives the
\* mantissa 2^(52-E) + I (+1 when rounded up), and the double rounding ends
\* one above it exactly when the single rounding goes down (f < 1/2), the
\* first rounding lifts a/10^7 onto the midpoint I + 1/2, which is
\* (1/2 - f) * 2^(E-e) <= 1/2 with the tie to even going up, and the second
\* rounding breaks that tie upwards (I odd).

\* floor(log2(n)) for 1 <= n < 2^31
Log2Floor(n) == CHOOSE j \in 0..30 : n \div (2^j) = 1

CeilDiv(n, d) == (n + d - 1) \div d

\* floor(log2(a / 10^7)) for 1 <= a < 2^31
Binade(a) ==
    IF a >= ONE_XLM
    THEN Log2Floor(a \div ONE_XLM)
    ELSE 0 - (CHOOSE j \in 1..24 : /\ a >= CeilDiv(ONE_XLM, 2^j)
                                   /\ a < CeilDiv(ONE_XLM, 2^(j-1)))

\* 2^j % 10^7 for 44 <= j <= 51
Pow2Mod(j) == (MulDivQR(4194304, 4194304, ONE_XLM).r * (2^(j - 44))) % ONE_XLM

\* (a * 2^(51-E)) % 10^7: twice this, by 10^7, has quotient I % 2 and
\* remainder f * 10^7
HalfRem(a, E) == MulDivQR(a, Pow2Mod(51 - E), ONE_XLM).r

\* d * 2^s <= 10^7 for d > 0, with equality excluded when s = 1 (the first
\* rounding's tie then goes down, to the even neighbour)
LiftedToMidpoint(d, s) ==
    /\ s < 24
    /\ \/ d < ONE_XLM \div (2^s)
       \/ d = ONE_XLM \div (2^s) /\ (ONE_XLM % (2^s) # 0 \/ s # 1)

\* r1 = HalfRem(a, E), s = E - e: I odd, f < 1/2, lifted onto the midpoint
RoundsAbove(r1, s) ==
    /\ s >= 1
    /\ 2 * r1 >= ONE_XLM
    /\ 2 * (2 * r1 - ONE_XLM) < ONE_XLM
    /\ LiftedToMidpoint(ONE_XLM - 2 * (2 * r1 - ONE_XLM), s)

\* RN(1 + a/10^7) < RN(RN(a/10^7) + 1)
DoubleRoundingAbove(a) ==
    /\ a > 0
    /\ RoundsAbove(HalfRem(a, Log2Floor((a + ONE_XLM) \div ONE_XLM)),
                   Log2Floor((a + ONE_XLM) \div ONE_XLM) - Binade(a))

\* balance < amount_xlm + 1.0, balance and amount in stroops
InsufficientBalance(balance, amount) ==
    IF balance = amount + ONE_XLM
    THEN DoubleRoundingAbove(amount)
    ELSE balance < amount + ONE_XLM

\* ----------------------------------------------------------- StellarVault
NewVaults ==
    [r \in RiskLevel |->
       IF r = "Low" THEN
         [risk_level |-> "Low", total_value |-> 0, total_shares |-> 0,
          insurance_fee |-> 50,
          strategies |-> << [strategy_type |-> "YieldBloxLending",
                             allocation_percentage |-> 100, current_apy |-> 350,
                             total_allocated |-> 0, current_yield |-> 0] >>]
       ELSE IF r = "Medium" THEN
         [risk_level |-> "Medium", total_value |-> 0, total_shares |-> 0,
          insurance_fee |-> 100,
          strategies |-> << [strategy_type |-> "AquaLiquidityPool",
                             allocation_percentage |-> 60, current_apy |-> 850,
                             total_allocated |-> 0, current_yield |-> 0],
                            [strategy_type |-> "YieldBloxLending",
                             allocation_percentage |-> 40, current_apy |-> 400,
                             total_allocated |-> 0, current_yield |-> 0] >>]
       ELSE
         [risk_level |-> "High", total_value |-> 0, total_shares |-> 0,
          insurance_fee |-> 200,
          strategies |-> << [strategy_type |-> "MoneyMarket",
                             allocation_percentage |-> 100, current_apy |-> 1500,
                             total_allocated |-> 0, current_yield |-> 0] >>]]

Ledger == [vaults |-> vaults, user_positions |-> user_positions,
           insurance_pool |-> insurance_pool]

\* let shares_to_mint = (amount_stroops as u128 * 10_000_000 / share_price as u128) as u64
SharesToMint(amount, share_price) == WideMulDiv(amount, UNIT, share_price)

\* let insurance_amount = (amount_stroops as u128 * vault.insurance_fee as u128 / 10000) as u64
InsuranceAmount(amount, fee) == WideMulDiv(amount, fee, BPS_DENOM)

NetDepositGross(amount, insurance_amount) == amount
NetDepositFeeOnly(amount, insurance_amount) == insurance_amount
\* let net_deposit = amount_stroops - insurance_amount
NetDeposit(amount, insurance_amount) == amount - insurance_amount

TotalValueAssign(total_value, net_deposit) == net_deposit
\* vault.total_value += net_deposit
TotalValueAfter(total_value, net_deposit) == total_value + net_deposit

TotalSharesAssign(total_shares, shares_to_mint) == shares_to_mint
TotalSharesTwice(total_shares, shares_to_mint) == total_shares + shares_to_mint + shares_to_mint
\* vault.total_shares += shares_to_mint
TotalSharesAfter(total_shares, shares_to_mint) == total_shares + shares_to_mint

StrategyAllocDivFirst(net_deposit, pct) == (net_deposit \div PCT_DENOM) * pct
\* let alloc = (net_deposit as u128 * strategy.allocation_percentage as u128 / 100) as u64
StrategyAlloc(net_deposit, pct) == WideMulDiv(net_deposit, pct, PCT_DENOM)

AllocateStrategiesWrongField(strategies, net_deposit) ==
    [i \in 1..Len(strategies) |->
       [strategies[i] EXCEPT !.allocation_percentage =
            @ + StrategyAlloc(net_deposit, strategies[i].allocation_percentage)]]
AllocateStrategiesReconciled(strategies, net_deposit) ==
    [i \in 1..Len(strategies) |->
       [strategies[i] EXCEPT !.total_allocated =
            @ + (IF i = Len(strategies) /\ i > 1
                 THEN net_deposit
                        - StrategyAlloc(net_deposit, strategies[1].allocation_percentage)
                 ELSE StrategyAlloc(net_deposit, strategies[i].allocation_percentage))]]
\* for strategy in &mut vault.strategies { strategy.total_allocated += alloc }
AllocateStrategies(strategies, net_deposit) ==
    [i \in 1..Len(strategies) |->
       [strategies[i] EXCEPT !.total_allocated =
            @ + StrategyAlloc(net_deposit, strategies[i].allocation_percentage)]]

PositionsAfterAnyTier(positions, key, shares_to_mint) ==
    [k \in (DOMAIN positions) \cup {key} |->
       IF k \in DOMAIN positions
       THEN IF k[1] = key[1]
            THEN [positions[k] EXCEPT !.shares = @ + shares_to_mint]
            ELSE positions[k]
       ELSE [shares |-> 0 + shares_to_mint, accumulated_yield |-> 0]]
PositionsAfterInsertMinted(positions, key, shares_to_mint) ==
    [k \in (DOMAIN positions) \cup {key} |->
       IF k = key
       THEN IF key \in DOMAIN positions
            THEN [positions[key] EXCEPT !.shares = @ + shares_to_mint]
            ELSE [shares |-> shares_to_mint + shares_to_mint, accumulated_yield |-> 0]
       ELSE positions[k]]
\* self.user_positions.entry(key).or_insert(UserPosition{0,0}).shares += shares_to_mint
PositionsAfter(positions, key, shares_to_mint) ==
    [k \in (DOMAIN positions) \cup {key} |->
       IF k = key
       THEN IF key \in DOMAIN positions
            THEN [positions[key] EXCEPT !.shares = @ + shares_to_mint]
            ELSE [shares |-> 0 + shares_to_mint, accumulated_yield |-> 0]
       ELSE positions[k]]

\* lines 250-271: the ledger update that follows a confirmed transfer.  The
\* let statements run in source order (the guard below evaluates them one
\* after the other), then the fields are written.
ApplyDeposit(L, user, risk, amount) ==
    LET vault == L.vaults[risk]
        share_price == get_share_price(vault)
        shares_to_mint == SharesToMint(amount, share_price)
        insurance_amount == InsuranceAmount(amount, vault.insurance_fee)
        net_deposit == NetDeposit(amount, insurance_amount)
        strategies == AllocateStrategies(vault.strategies, net_deposit)
    IN IF /\ share_price >= 0
          /\ shares_to_mint >= 0
          /\ insurance_amount >= 0
          /\ net_deposit >= 0
          /\ Len(strategies) >= 0
       THEN [ledger |->
               [vaults |-> [L.vaults EXCEPT ![risk] =
                              [vault EXCEPT
                                 !.total_value = TotalValueAfter(@, net_deposit),
                                 !.total_shares = TotalSharesAfter(@, shares_to_mint),
                                 !.strategies = strategies]],
                user_positions |-> PositionsAfter(L.user_positions, <<user, risk>>,
                                                  shares_to_mint),
                insurance_pool |-> L.insurance_pool + insurance_amount],
             shares |-> shares_to_mint]
       ELSE [ledger |-> L, shares |-> 0]

AfterBalanceAlwaysSend(bal, amount) == "send_payment"
\* match self.stellar_client.get_balance().await: Ok and too little returns
\* the error; Ok and enough, or Err (only printed), goes on to send_payment
AfterBalance(bal, amount) ==
    IF bal.ok /\ InsufficientBalance(bal.val, amount)
    THEN "return_err"
    ELSE "send_payment"

AfterTransferAlwaysMint(L, ok, user, risk, amount) ==
    ApplyDeposit(L, user, risk, amount) @@
    [ok |-> ok, err |-> IF ok THEN "none" ELSE "Transaction failed"]
AfterTransferNoHigh(L, ok, user, risk, amount) ==
    IF ~ok
    THEN [ledger |-> L, shares |-> 0, ok |-> FALSE, err |-> "Transaction failed"]
    ELSE IF risk \notin (DOMAIN L.vaults) \ {"High"}
    THEN [ledger |-> L, shares |-> 0, ok |-> FALSE, err |-> "Vault not found"]
    ELSE ApplyDeposit(L, user, risk, amount) @@ [ok |-> TRUE, err |-> "none"]
\* match send_payment(..).await: Err returns the error; Ok looks the vault up
\* and applies the ledger update
AfterTransfer(L, ok, user, risk, amount) ==
    IF ~ok
    THEN [ledger |-> L, shares |-> 0, ok |-> FALSE, err |-> "Transaction failed"]
    ELSE IF risk \notin DOMAIN L.vaults
    THEN [ledger |-> L, shares |-> 0, ok |-> FALSE, err |-> "Vault not found"]
    ELSE ApplyDeposit(L, user, risk, amount) @@ [ok |-> TRUE, err |-> "none"]

\* ------------------------------------------------------------------ state
Init ==
    /\ vaults = NewVaults
    /\ user_positions = << >>
    /\ insurance_pool = 0
    /\ pc = "idle"
    /\ call = [user |-> "u1", risk |-> "Low", amount |-> 0]
    /\ result = None
    /\ pre = [vaults |-> NewVaults, user_positions |-> << >>, insurance_pool |-> 0]
    /\ balance_seen = "none"
    /\ transfer = "none"
    /\ gross_total = 0
    /\ returned = [r \in RiskLevel |-> 0]
    /\ ndeposits = 0

\* deposit(user, risk, amount_stroops) is called and runs up to the await of
\* get_balance (lines 216-225)
Deposit(user, risk, amount) ==
    /\ pc = "idle"
    /\ ndeposits < MaxDeposits
    /\ gross_total + amount <= MaxGross
    /\ pc' = "get_balance"
    /\ call' = [user |-> user, risk |-> risk, amount |-> amount]
    /\ result' = None
    /\ pre' = Ledger
    /\ balance_seen' = "none"
    /\ transfer' = "none"
    /\ UNCHANGED << vaults, user_positions, insurance_pool, gross_total,
                    returned, ndeposits >>

\* get_balance resolves; deposit runs up to the await of send_payment, or
\* returns (lines 225-241)
BalanceReply(reply) ==
    /\ pc = "get_balance"
    /\ LET bal == get_balance(reply)
           next == AfterBalance(bal, call.amount)
       IN /\ balance_seen' = IF ~bal.ok THEN "err"
                             ELSE IF InsufficientBalance(bal.val, call.amount)
                                  THEN "insufficient" ELSE "enough"
          /\ IF next = "return_err"
             THEN /\ pc' = "idle"
                  /\ result' = [ok |-> FALSE, val |-> 0,
                                err |-> "Insufficient balance"]
                  /\ transfer' = transfer
             ELSE /\ pc' = "send_payment"
                  /\ result' = result
                  /\ transfer' = "submitted"
    /\ UNCHANGED << vaults, user_positions, insurance_pool, call, pre,
                    gross_total, returned, ndeposits >>

\* transfer_xlm resolves; deposit runs to its return (lines 241-272)
TransferReply(ok) ==
    /\ pc = "send_payment"
    /\ LET out == AfterTransfer(Ledger, ok, call.user, call.risk, call.amount)
       IN /\ vaults' = out.ledger.vaults
          /\ user_positions' = out.ledger.user_positions
          /\ insurance_pool' = out.ledger.insurance_pool
          /\ result' = [ok |-> out.ok, val |-> out.shares, err |-> out.err]
          /\ gross_total' = IF out.ok THEN gross_total + call.amount ELSE gross_total
          /\ returned' = IF out.ok
                         THEN [returned EXCEPT ![call.risk] = @ + out.shares]
                         ELSE returned
          /\ ndeposits' = IF out.ok THEN ndeposits + 1 ELSE ndeposits
    /\ transfer' = IF ok THEN "confirmed" ELSE "failed"
    /\ pc' = "idle"
    /\ UNCHANGED << call, pre, balance_seen >>

Next ==
    \/ \E user \in Users, risk \in RiskLevel, amount \in Amounts :
           Deposit(user, risk, amount)
    \/ \E reply \in BalanceReplies : BalanceReply(reply)
    \/ \E ok \in BOOLEAN : TransferReply(ok)

Spec == Init /\ [][Next]_vars

\* ---------------------------------------------------------------- claims
\* floor(g * f / 10000) and floor(n * p / 100) by splitting the dividend, so
\* that the claims state the quotients independently of WideMulDiv
FloorFee(g, f) == (g \div 10000) * f + ((g % 10000) * f) \div 10000
FloorPct(n, p) == (n \div 100) * p + ((n % 100) * p) \div 100

Returned == pc = "idle" /\ result # None
ReturnedOk == pc = "idle" /\ result.ok
SumAllocated(v) ==
    LET RECURSIVE Sum(_)
        Sum(i) == IF i = 0 THEN 0 ELSE v.strategies[i].total_allocated + Sum(i - 1)
    IN Sum(Len(v.strategies))
SharesBefore(positions, key) ==
    IF key \in DOMAIN positions THEN positions[key].shares ELSE 0

\* C1: the shares a deposit returns, adds to total_shares and credits to the
\* position are floor(net_amount * UNIT / price), net_amount being the gross
\* amount minus the insurance cut and price the share price before the deposit.
C1_SharesFromNet ==
    ReturnedOk =>
        LET v0 == pre.vaults[call.risk]
            net == call.amount - FloorFee(call.amount, v0.insurance_fee)
            entitled == WideMulDiv(net, UNIT, get_share_price(v0))
        IN /\ result.val = entitled
           /\ vaults[call.risk].total_shares = v0.total_shares + entitled

\* C2: in every step, every tier's share price is at least what it was.
C2_SharePriceNonDecreasing ==
    [][\A r \in RiskLevel :
          get_share_price(vaults'[r]) >= get_share_price(vaults[r])]_vars

\* C3: a successful deposit of g splits g into cut = floor(g*f/10000) and
\* net = g - cut >= 0, adds cut to the insurance pool and net to the tier's
\* total_value; so the pool plus all total_values is the sum of the gross
\* amounts of the successful deposits.
C3_Conservation ==
    /\ insurance_pool
         + vaults["Low"].total_value + vaults["Medium"].total_value
         + vaults["High"].total_value = gross_total
    /\ ReturnedOk =>
         LET v0 == pre.vaults[call.risk]
             cut == FloorFee(call.amount, v0.insurance_fee)
             net == call.amount - cut
         IN /\ cut >= 0 /\ net >= 0
            /\ insurance_pool = pre.insurance_pool + cut
            /\ vaults[call.risk].total_value = v0.total_value + net

C3_Witness ==
    /\ ReturnedOk /\ ndeposits >= 2
    /\ insurance_pool > pre.insurance_pool
    /\ pre.insurance_pool > 0

\* C4: the ledger changes only in the step in which this call's transfer is
\* confirmed; a call whose transfer failed returned an error and left the
\* ledger as it was when the call was made.
C4_NoMutationUnlessConfirmed ==
    /\ []((pc = "idle" /\ transfer = "failed") => (~result.ok /\ Ledger = pre))
    /\ [][Ledger' # Ledger =>
            (pc = "send_payment" /\ transfer' = "confirmed")]_vars

C4_Witness ==
    /\ pc = "idle" /\ transfer = "failed"
    /\ result.err = "Transaction failed"
    /\ pre.vaults[call.risk].total_shares > 0

\* C5: when the balance check finds too little, the call has returned an
\* error, no transfer was submitted and the ledger is unchanged.
C5_InsufficientStopsBeforeTransfer ==
    balance_seen = "insufficient" =>
        /\ pc = "idle"
        /\ ~result.ok /\ result.err = "Insufficient balance"
        /\ transfer = "none"
        /\ Ledger = pre

C5_Witness ==
    /\ balance_seen = "insufficient"
    /\ result.err = "Insufficient balance"
    /\ ndeposits >= 1

\* C6: a failed get_balance, like a failed transfer, makes deposit return an
\* error instead of going on to the next step.
C6_NoErrorSwallowed ==
    /\ balance_seen = "err" => (pc = "idle" /\ ~result.ok /\ transfer = "none")
    /\ transfer = "failed" => (pc = "idle" /\ ~result.ok)

\* C7: a call that returned either returned an error and left the ledger as
\* it was, or returned Ok after its one transfer was confirmed with the
\* ledger update applied exactly once; a confirmed transfer is always
\* followed by that one update, and nothing changes while the call is pending.
C7_AllOrNothingOnce ==
    /\ pc # "idle" => Ledger = pre
    /\ Returned =>
         /\ result.ok <=> transfer = "confirmed"
         /\ ~result.ok => Ledger = pre
         /\ result.ok =>
              LET r == call.risk
                  key == <<call.user, call.risk>>
                  v0 == pre.vaults[r]
                  cut == FloorFee(call.amount, v0.insurance_fee)
                  net == call.amount - cut
              IN /\ insurance_pool = pre.insurance_pool + cut
                 /\ vaults[r].total_value = v0.total_value + net
                 /\ vaults[r].total_shares = v0.total_shares + result.val
                 /\ \A i \in 1..Len(v0.strategies) :
                       vaults[r].strategies[i].total_allocated =
                          v0.strategies[i].total_allocated
                            + FloorPct(net, v0.strategies[i].allocation_percentage)
                 /\ DOMAIN user_positions = DOMAIN pre.user_positions \cup {key}
                 /\ user_positions[key].shares =
                       SharesBefore(pre.user_positions, key) + result.val
                 /\ \A k \in DOMAIN pre.user_positions \ {key} :
                       user_positions[k] = pre.user_positions[k]
                 /\ \A r2 \in RiskLevel \ {r} : vaults[r2] = pre.vaults[r2]

C7_Witness ==
    /\ ReturnedOk /\ transfer = "confirmed"
    /\ <<call.user, call.risk>> \in DOMAIN pre.user_positions
    /\ result.val > 0

\* C8: in every tier the strategies' total_allocated sum to at most
\* total_value, each step adds less than the number of strategies to the
\* difference, and in the single-strategy tiers the sum equals total_value.
C8_AllocatedWithinTotalValue ==
    /\ [](\A r \in RiskLevel :
            /\ SumAllocated(vaults[r]) <= vaults[r].total_value
            /\ Len(vaults[r].strategies) = 1 =>
                  SumAllocated(vaults[r]) = vaults[r].total_value)
    /\ [][\A r \in RiskLevel :
            LET gap0 == vaults[r].total_value - SumAllocated(vaults[r])
                gap1 == vaults'[r].total_value - SumAllocated(vaults'[r])
            IN gap1 - gap0 >= 0 /\ gap1 - gap0 < Len(vaults[r].strategies)]_vars

C8_Witness ==
    /\ ReturnedOk
    /\ vaults["Medium"].total_value - SumAllocated(vaults["Medium"]) >= 2
    /\ vaults["Low"].total_value > 0

\* C9: nothing touches the ledger between a call and its pricing, each
\* deposit is priced at the share price of the ledger left by the deposits
\* before it, and every tier's total_shares is the sum of the shares that
\* the deposits into it returned.
C9_Serialized ==
    /\ \A r \in RiskLevel : vaults[r].total_shares = returned[r]
    /\ pc # "idle" => Ledger = pre
    /\ ReturnedOk =>
         result.val = SharesToMint(call.amount, get_share_price(pre.vaults[call.risk]))

C9_Witness ==
    /\ ReturnedOk
    /\ get_share_price(pre.vaults[call.risk]) < UNIT
    /\ returned[call.risk] > result.val
    /\ result.val > call.amount

\* C10: no step lowers a tier's total_value or total_shares, a strategy's
\* total_allocated, or the insurance pool.
C10_NonDecreasing ==
    [][/\ insurance_pool' >= insurance_pool
       /\ \A r \in RiskLevel :
            /\ vaults'[r].total_value >= vaults[r].total_value
            /\ vaults'[r].total_shares >= vaults[r].total_shares
            /\ \A i \in 1..Len(vaults[r].strategies) :
                  vaults'[r].strategies[i].total_allocated
                     >= vaults[r].strategies[i].total_allocated]_vars

C10_Witness ==
    /\ ReturnedOk /\ ndeposits = MaxDeposits
    /\ \A r \in RiskLevel : vaults[r].total_value > 0
    /\ insurance_pool > 0

\* floor(n * 10^7 / c) by decimal long division, one digit of the quotient at
\* a time: an evaluation of the quotient that shares nothing with WideMulDiv.
\* DecDigit is floor(10*r / c) for r < c, DecRem the remainder it leaves.
DecCost(k, c) == k * (c \div 10) + (k * (c % 10) + 9) \div 10
DecDigit(r, c) ==
    CHOOSE k \in 0..9 : r >= DecCost(k, c) /\ (k = 9 \/ r < DecCost(k + 1, c))
DecRem(r, c, k) == 10 * (r - k * (c \div 10)) - k * (c % 10)
RECURSIVE LongDiv(_, _, _, _)
LongDiv(acc, r, c, n) ==
    IF n = 0 THEN acc
    ELSE LongDiv(10 * acc + DecDigit(r, c), DecRem(r, c, DecDigit(r, c)), c, n - 1)
FloorUnit(n, c) == LongDiv(n \div c, n % c, c, 7)

\* C11: get_share_price is UNIT for a vault without shares and
\* floor(total_value * UNIT / total_shares) otherwise, for every vault state
\* the deposits produce and for the vault each deposit was priced on.
C11_SharePriceValue ==
    /\ \A r \in RiskLevel :
         get_share_price(vaults[r]) =
            IF vaults[r].total_shares = 0 THEN UNIT
            ELSE FloorUnit(vaults[r].total_value, vaults[r].total_shares)
    /\ ReturnedOk =>
         get_share_price(pre.vaults[call.risk]) =
            IF pre.vaults[call.risk].total_shares = 0 THEN UNIT
            ELSE FloorUnit(pre.vaults[call.risk].total_value,
                           pre.vaults[call.risk].total_shares)

C11_Witness ==
    /\ ReturnedOk
    /\ vaults["High"].total_shares = 0
    /\ get_share_price(vaults["High"]) = UNIT
    /\ vaults["Low"].total_shares > 0
    /\ get_share_price(vaults["Low"]) < UNIT
    /\ MulDivQR(vaults["Low"].total_value, UNIT, vaults["Low"].total_shares).r # 0

\* C12: from the fresh registry one successful deposit of 1,000,000,000 into
\* Low adds 5,000,000 to the pool, makes total_value 995,000,000, returns and
\* credits 995,000,000 shares and allocates 995,000,000 to the strategy.
C12_FirstLowDeposit ==
    (/\ ReturnedOk
     /\ pre = [vaults |-> NewVaults, user_positions |-> << >>, insurance_pool |-> 0]
     /\ call.risk = "Low" /\ call.amount = 1000000000) =>
        /\ insurance_pool = 5000000
        /\ vaults["Low"].total_value = 995000000
        /\ vaults["Low"].strategies[1].total_allocated = 995000000
        /\ result.val = 995000000
        /\ vaults["Low"].total_shares = 995000000
        /\ user_positions[<<call.user, "Low">>].shares = 995000000

SumPercentages(v) ==
    LET RECURSIVE Sum(_)
        Sum(i) == IF i = 0 THEN 0
                  ELSE v.strategies[i].allocation_percentage + Sum(i - 1)
    IN Sum(Len(v.strategies))

\* C13: every tier has a vault whose strategies' percentages sum to 100, and
\* the risk level, the fee rate and the strategies' kinds, percentages and
\* number are those of the construction.
C13_ConfigurationFixed ==
    /\ DOMAIN vaults = RiskLevel
    /\ \A r \in RiskLevel :
         /\ SumPercentages(vaults[r]) = 100
         /\ vaults[r].risk_level = r
         /\ vaults[r].insurance_fee = NewVaults[r].insurance_fee
         /\ Len(vaults[r].strategies) = Len(NewVaults[r].strategies)
         /\ \A i \in 1..Len(vaults[r].strategies) :
               /\ vaults[r].strategies[i].strategy_type
                    = NewVaults[r].strategies[i].strategy_type
               /\ vaults[r].strategies[i].allocation_percentage
                    = NewVaults[r].strategies[i].allocation_percentage

C13_Witness ==
    /\ ReturnedOk /\ ndeposits >= 2
    /\ vaults["Medium"].strategies[1].total_allocated > 0
    /\ vaults["Medium"].strategies[2].total_allocated > 0
    /\ vaults["High"].strategies[1].total_allocated > 0

\* C14: a step of a deposit by u into r changes no other tier's vault and no
\* position other than (u, r), and removes or adds no other position.
C14_OtherTiersAndPositionsUnchanged ==
    [][LET key == <<call'.user, call'.risk>>
       IN /\ \A r2 \in RiskLevel \ {call'.risk} : vaults'[r2] = vaults[r2]
          /\ \A k \in DOMAIN user_positions \ {key} :
                /\ k \in DOMAIN user_positions'
                /\ user_positions'[k] = user_positions[k]
          /\ DOMAIN user_positions' \subseteq DOMAIN user_positions \cup {key}]_vars

C14_Witness ==
    /\ ReturnedOk
    /\ insurance_pool > pre.insurance_pool
    /\ \E k \in DOMAIN pre.user_positions :
          k[1] = call.user /\ k[2] # call.risk /\ pre.user_positions[k].shares > 0
    /\ \E k \in DOMAIN pre.user_positions :
          k[1] # call.user /\ k[2] = call.risk /\ pre.user_positions[k].shares > 0

\* C15: a successful deposit with net amount n adds floor(n * percentage / 100)
\* to each strategy of its vault, in Medium floor(n*60/100) and
\* floor(n*40/100); what the floors leave of n is added to no strategy.
C15_PerStrategyFloor ==
    ReturnedOk =>
        LET r == call.risk
            v0 == pre.vaults[r]
            n == call.amount - FloorFee(call.amount, v0.insurance_fee)
            added(i) == vaults[r].strategies[i].total_allocated
                          - v0.strategies[i].total_allocated
        IN /\ \A i \in 1..Len(v0.strategies) :
                 added(i) = FloorPct(n, v0.strategies[i].allocation_percentage)
           /\ r = "Medium" =>
                 /\ added(1) = FloorPct(n, 60)
                 /\ added(2) = FloorPct(n, 40)
                 /\ added(1) + added(2) = n - (IF ((n % 100) * 60) % 100 = 0 THEN 0 ELSE 1)
           /\ r # "Medium" => added(1) = n

C15_Witness ==
    /\ ReturnedOk /\ call.risk = "Medium"
    /\ pre.vaults["Medium"].strategies[2].total_allocated > 0
    /\ (vaults["Medium"].strategies[1].total_allocated
          - pre.vaults["Medium"].strategies[1].total_allocated)
       + (vaults["Medium"].strategies[2].total_allocated
          - pre.vaults["Medium"].strategies[2].total_allocated)
       < vaults["Medium"].total_value - pre.vaults["Medium"].total_value

\* the shares of tier r summed over the positions of all users
SumShares(positions, r) ==
    LET RECURSIVE Sum(_)
        Sum(us) == IF us = {} THEN 0
                   ELSE LET u == CHOOSE x \in us : TRUE
                        IN SharesBefore(positions, <<u, r>>) + Sum(us \ {u})
    IN Sum(Users)

\* C16: in every tier the positions' shares sum to total_shares; there is no
\* position before the first successful deposit, a step adds the position
\* (u, r) exactly when a deposit of u into r returns Ok and the position was
\* missing, the new position holds 0 plus the minted shares, no position is
\* removed and accumulated_yield is always zero.
C16_PositionsBookkeeping ==
    /\ [](/\ \A r \in RiskLevel :
               SumShares(user_positions, r) = vaults[r].total_shares
          /\ \A k \in DOMAIN user_positions :
               user_positions[k].accumulated_yield = 0
          /\ ndeposits = 0 => DOMAIN user_positions = {})
    /\ [][LET key == <<call.user, call.risk>>
          IN /\ DOMAIN user_positions' =
                   IF pc = "send_payment" /\ result'.ok
                   THEN DOMAIN user_positions \cup {key}
                   ELSE DOMAIN user_positions
             /\ (key \notin DOMAIN user_positions /\ key \in DOMAIN user_positions')
                   => user_positions'[key].shares = result'.val]_vars

C16_Witness ==
    /\ ReturnedOk
    /\ <<call.user, call.risk>> \notin DOMAIN pre.user_positions
    /\ \A u \in Users :
          /\ <<u, call.risk>> \in DOMAIN user_positions
          /\ user_positions[<<u, call.risk>>].shares > 0
    /\ Cardinality(DOMAIN user_positions) >= 3

\* C17: all three vaults are always present, so a call whose transfer was
\* confirmed has returned Ok; no call returns "Vault not found".
C17_ConfirmedTransferMints ==
    /\ DOMAIN vaults = RiskLevel
    /\ result.err # "Vault not found"
    /\ transfer = "confirmed" =>
          /\ pc = "idle" /\ result.ok
          /\ vaults[call.risk].total_value > pre.vaults[call.risk].total_value

C17_Witness ==
    /\ transfer = "confirmed" /\ result.ok
    /\ call.risk = "High"
    /\ vaults["Low"].total_shares > 0
    /\ vaults["Medium"].total_shares > 0

\* C18: every reachable vault has a share price above zero, that is, with
\* shares outstanding total_value * UNIT is at least total_shares, and the
\* price each deposit divided by was above zero.
C18_SharePricePositive ==
    /\ \A r \in RiskLevel :
         /\ get_share_price(vaults[r]) > 0
         /\ vaults[r].total_shares > 0 =>
               vaults[r].total_value >= (vaults[r].total_shares + (UNIT - 1)) \div UNIT
    /\ get_share_price(pre.vaults[call.risk]) > 0

C18_Witness ==
    /\ ReturnedOk /\ ndeposits = MaxDeposits
    /\ get_share_price(pre.vaults[call.risk]) < UNIT
    /\ get_share_price(vaults[call.risk]) < get_share_price(pre.vaults[call.risk])
    /\ get_share_price(vaults[call.risk]) > 0

====
